---------------------------- MODULE Spec2Model ----------------------------
(***************************************************************************)
(* Model of the AI vocabulary card application (app.py,                    *)
(* ui_components.py): the JSON stores words.json and learned_words.json,   *)
(* the backups directory, the Notion synchronisation run once per          *)
(* Streamlit session, and the handlers of the sidebar and of the learning  *)
(* and review modes.  One action models one execution of the script.       *)
(*                                                                         *)
(* A Python dict is a sequence of entries [word, meaning, memo] without    *)
(* repeated words, in insertion order; a Python list is a sequence.  A     *)
(* file is <<>> when it does not exist and <<v>> when it holds the JSON    *)
(* document v.  The backups directory maps a file name, the sequence of    *)
(* the '_'-separated parts of its stem, to the document it holds.          *)
(***************************************************************************)
EXTENDS Integers, Sequences, FiniteSets, TLC

\* ------------------------------ bounds ---------------------------------
MaxRuns == 6
StudyRuns == 4
MaxRows == 2
SnapRuns == 7
SnapTime == 6
FormRuns == 3
MergeRuns == 1
MergeRows == 2

\* ------------------------------ inputs ---------------------------------
WordInputs == {"", "cat", "dog"}
MeanInputs == {"", "m"}
MemoInputs == {""}
RemoteTitles == {<<>>, <<"cat">>}
RemoteMeans == {<<>>, <<"r">>}
RemoteMemos == {<<>>}
Queries == {"c"}
NoSelection == "<None>"

\* ------------------------- sequences and dicts -------------------------
Range(s) == {s[i] : i \in 1..Len(s)}

SeqsUpTo(S, n) == UNION {[1..k -> S] : k \in 0..n}

\* [x for x in s if x != w]
Without(s, w) == SelectSeq(s, LAMBDA x : x # w)

\* list.remove(w): drops the first occurrence of w
RemoveFirst(s, w) ==
    IF w \notin Range(s) THEN s
    ELSE LET i == CHOOSE k \in 1..Len(s) :
                      s[k] = w /\ \A j \in 1..(k - 1) : s[j] # w
         IN  SubSeq(s, 1, i - 1) \o SubSeq(s, i + 1, Len(s))

NoDup(s) == \A i, j \in 1..Len(s) : s[i] = s[j] => i = j

Keys(d) == [i \in 1..Len(d) |-> d[i].word]

KeySet(d) == {d[i].word : i \in 1..Len(d)}

DictGet(d, w) ==
    LET i == CHOOSE k \in 1..Len(d) : d[k].word = w
    IN  [meaning |-> d[i].meaning, memo |-> d[i].memo]

\* a list of pairs in place of a dict: every assignment appends
DictSet_append(d, w, m, n) ==
    Append(d, [word |-> w, meaning |-> m, memo |-> n])

\* d[w] = {"meaning": m, "memo": n}: an existing key keeps its position
DictSet(d, w, m, n) ==
    IF w \in KeySet(d)
    THEN [i \in 1..Len(d) |->
             IF d[i].word = w THEN [word |-> w, meaning |-> m, memo |-> n]
             ELSE d[i]]
    ELSE Append(d, [word |-> w, meaning |-> m, memo |-> n])

\* d.pop(w)
DictPop(d, w) == SelectSeq(d, LAMBDA e : e.word # w)

RECURSIVE DictUpdate_keep(_, _)
\* setdefault in place of assignment: a key already present keeps its entry
DictUpdate_keep(d, e) ==
    IF e = <<>> THEN d
    ELSE IF Head(e).word \in KeySet(d) THEN DictUpdate_keep(d, Tail(e))
    ELSE DictUpdate_keep(DictSet(d, Head(e).word, Head(e).meaning, Head(e).memo),
                         Tail(e))

RECURSIVE DictUpdate(_, _)
\* d |= e: the entries of e are set in d in the order of e
DictUpdate(d, e) ==
    IF e = <<>> THEN d
    ELSE DictUpdate(DictSet(d, Head(e).word, Head(e).meaning, Head(e).memo),
                    Tail(e))


\* ---------------------------- JSON utilities ---------------------------
WORDS_STEM == <<"words">>
LEARNED_STEM == <<"learned", "words">>
keep == 5

IsPrefix(p, s) == Len(p) <= Len(s) /\ SubSeq(s, 1, Len(p)) = p

IsSuffix(p, s) == Len(p) <= Len(s) /\ SubSeq(s, Len(s) - Len(p) + 1, Len(s)) = p

\* glob(f"*{stem}_*.json"): the names that hold stem + "_" before the
\* timestamp, whatever stands in front
Glob_suffix(dir, stem) == {f \in DOMAIN dir : IsSuffix(stem, f.stem)}

\* BACKUP_DIR.glob(f"{stem}_*.json"): the names that begin with stem + "_"
Glob(dir, stem) == {f \in DOMAIN dir : IsPrefix(stem, f.stem)}

\* the order of sorted() on the paths: by the text of the name, where
\* "learned_words_..." comes before "words_...", then by the timestamp
StemRank(stem) == IF stem[1] = "learned" THEN 0 ELSE 1

NameBefore(f, g) ==
    \/ StemRank(f.stem) < StemRank(g.stem)
    \/ f.stem = g.stem /\ f.ts < g.ts

RECURSIVE Sorted(_)
Sorted(S) ==
    IF S = {} THEN <<>>
    ELSE LET f == CHOOSE x \in S : \A y \in S \ {x} : NameBefore(x, y)
         IN  <<f>> \o Sorted(S \ {f})

Restrict(dir, S) == [f \in S |-> dir[f]]

\* a slip of the slice: snaps[keep:] are unlinked, which keeps the oldest
_trim_backups_oldest(dir, stem) ==
    LET snaps == Sorted(Glob(dir, stem))
        old   == {snaps[i] : i \in (keep + 1)..Len(snaps)}
    IN  Restrict(dir, DOMAIN dir \ old)

\* snaps[:-keep] are unlinked
_trim_backups(dir, stem) ==
    LET snaps == Sorted(Glob(dir, stem))
        old   == {snaps[i] : i \in 1..(Len(snaps) - keep)}
    IN  Restrict(dir, DOMAIN dir \ old)

\* shutil.copy2(path, snap): creates or overwrites the file named snap
Copy2(dir, f, doc) == [g \in DOMAIN dir \cup {f} |-> IF g = f THEN doc ELSE dir[g]]

\* lines 39-42 after line 43: the snapshot is copied from the file just
\* written
_json_dump_after(file, dir, stem, data, t) ==
    [file |-> <<data>>,
     dir  |-> IF file # <<>>
              THEN _trim_backups(Copy2(dir, [stem |-> stem, ts |-> t], data), stem)
              ELSE dir]

\* the store file and the backups directory after _json_dump(path, data)
\* at time t
_json_dump(file, dir, stem, data, t) ==
    [file |-> <<data>>,
     dir  |-> IF file # <<>>
              THEN _trim_backups(Copy2(dir, [stem |-> stem, ts |-> t], file[1]), stem)
              ELSE dir]

\* the value load_words / load_learned return; both documents' default is
\* an empty sequence ("{}" and "[]")
LoadValue(file) == IF file = <<>> THEN <<>> ELSE file[1]

\* the store file after load_words / load_learned
LoadFile(file) == IF file = <<>> THEN <<(<<>>)>> ELSE file

\* ----------------------------- Notion sync -----------------------------
\* a page of the Notion database: the three properties as rich-text lists
Pages == [title : RemoteTitles, mean : RemoteMeans, memo : RemoteMemos]

PageOk(r) == r.title # <<>> /\ r.mean # <<>>

RowOf(r) == [word    |-> r.title[1],
             meaning |-> r.mean[1],
             memo    |-> IF r.memo # <<>> THEN r.memo[1] ELSE ""]

RECURSIVE ReadRows(_, _)
\* the loop of fetch_notion_rows: [0]["plain_text"] of an empty title or
\* definition raises, with the rows read so far in the local list
ReadRows(results, rows) ==
    IF results = <<>> THEN [status |-> "ok", rows |-> rows]
    ELSE IF ~PageOk(Head(results)) THEN [status |-> "bad_row", rows |-> rows]
    ELSE ReadRows(Tail(results), Append(rows, RowOf(Head(results))))

\* api is "error" when notion.databases.query raises APIResponseError
fetch_notion_rows(api, results) ==
    IF api = "error" THEN [status |-> "api_error", rows |-> <<>>]
    ELSE ReadRows(results, <<>>)

\* the dict sync_from_notion builds from the rows
RemoteDict(rows) == DictUpdate(<<>>, rows)


\* ------------------------------- state ---------------------------------
VARIABLES
    wordsFile,    \* words.json
    learnedFile,  \* learned_words.json
    backups,      \* the backups directory
    now,          \* the local clock, in seconds
    session,      \* "closed" until a browser session exists, then "open"
    words,        \* st.session_state["words"]
    learned,      \* st.session_state["learned"]
    mode,         \* the value of the mode radio
    rendered,     \* the last execution drew the sidebar and the main screen
    fetched,      \* outcome of fetch_notion_rows in the last execution
    syncStatus,   \* outcome of this session's first fetch
    syncCalls,    \* calls of sync_from_notion in this session
    merges,       \* merges of a sync result into the session repository
    nRuns,        \* executions of the script so far
    last,         \* the event the last execution handled
    kept,         \* words added by the add handler and not deleted since
    saved         \* per store: saves so far (up to keep + 1), snapshot times

vars == <<wordsFile, learnedFile, backups, now, session, words, learned, mode,
          rendered, fetched, syncStatus, syncCalls, merges, nRuns, last, kept,
          saved>>

NoFetch == [status |-> "none", rows |-> <<>>]

Event(k, w, m, n) == [kind |-> k, word |-> w, meaning |-> m, memo |-> n]

Stems == {WORDS_STEM, LEARNED_STEM}

\* the state an execution of the script works on
Current ==
    [hasWords |-> session = "open", words |-> words, learned |-> learned,
     wf |-> wordsFile, lf |-> learnedFile, dir |-> backups, fetched |-> NoFetch,
     syncStatus |-> syncStatus, syncCalls |-> syncCalls, merges |-> merges,
     halted |-> FALSE, done |-> FALSE, log |-> <<>>]

\* a new session: st.session_state is empty
Fresh ==
    [Current EXCEPT !.hasWords = FALSE, !.words = <<>>, !.learned = <<>>,
                    !.syncStatus = "none", !.syncCalls = 0, !.merges = 0]

\* save_words(data) at time t
save_words(s, data, t) ==
    LET d == _json_dump(s.wf, s.dir, WORDS_STEM, data, t)
    IN  [s EXCEPT !.wf = d.file, !.dir = d.dir,
                  !.log = Append(@, [stem |-> WORDS_STEM, snap |-> s.wf # <<>>])]

\* save_learned(data) at time t
save_learned(s, data, t) ==
    LET d == _json_dump(s.lf, s.dir, LEARNED_STEM, data, t)
    IN  [s EXCEPT !.lf = d.file, !.dir = d.dir,
                  !.log = Append(@, [stem |-> LEARNED_STEM, snap |-> s.lf # <<>>])]

\* a slip of line 109: "=" for "|=", the session repository becomes the
\* remote dict
sync_from_notion_assign(s, f, t) ==
    LET s0 == [s EXCEPT !.fetched = f, !.syncCalls = @ + 1,
                        !.syncStatus = IF @ = "none" THEN f.status ELSE @]
    IN  IF f.status # "ok"
        THEN [s0 EXCEPT !.halted = TRUE]
        ELSE LET remote == RemoteDict(f.rows)
             IN  [save_words(s0, remote, t) EXCEPT
                     !.merges = @ + 1, !.words = remote]

\* a fetch that kept the rows read before a bad row: they are saved and
\* merged, and then the execution ends
sync_from_notion_partial(s, f, t) ==
    LET s0 == [s EXCEPT !.fetched = f, !.syncCalls = @ + 1,
                        !.syncStatus = IF @ = "none" THEN f.status ELSE @]
        remote == RemoteDict(f.rows)
    IN  IF f.status = "api_error"
        THEN [s0 EXCEPT !.halted = TRUE]
        ELSE [save_words(s0, remote, t) EXCEPT
                 !.merges = IF f.status = "ok" THEN @ + 1 ELSE @,
                 !.words = DictUpdate(s.words, remote),
                 !.halted = f.status # "ok"]

\* sync_from_notion and the |= of line 109, given the outcome f of
\* fetch_notion_rows: st.stop() or the exception of a bad row ends the
\* execution before save_words and before the merge
sync_from_notion(s, f, t) ==
    LET s0 == [s EXCEPT !.fetched = f, !.syncCalls = @ + 1,
                        !.syncStatus = IF @ = "none" THEN f.status ELSE @]
    IN  IF f.status # "ok"
        THEN [s0 EXCEPT !.halted = TRUE]
        ELSE LET remote == RemoteDict(f.rows)
             IN  [save_words(s0, remote, t) EXCEPT
                     !.merges = @ + 1, !.words = DictUpdate(s.words, remote)]

\* a session initialisation without the guard of line 105
WordsInSessionState_never(s) == FALSE

\* "words" in st.session_state
WordsInSessionState(s) == s.hasWords

\* lines 105-109
SessionInit(s, api, results, t) ==
    IF WordsInSessionState(s) THEN s
    ELSE LET s1 == [s EXCEPT !.words = LoadValue(s.wf), !.wf = LoadFile(s.wf),
                             !.learned = LoadValue(s.lf), !.lf = LoadFile(s.lf),
                             !.hasWords = TRUE]
         IN  sync_from_notion(s1, fetch_notion_rows(api, results), t)

\* a non-empty str is true
Truthy(x) == x # ""

\* lines 119-123
AddHandler(s, ev, t) ==
    IF ev.kind = "add" /\ Truthy(ev.word) /\ Truthy(ev.meaning)
    THEN LET w == DictSet(s.words, ev.word, ev.meaning, ev.memo)
         IN  [save_words([s EXCEPT !.words = w], w, t) EXCEPT !.done = TRUE]
    ELSE s

\* a delete handler without line 141
DeleteHandler_nocascade(s, ev, t) ==
    IF ev.kind = "delete" /\ ev.word \in KeySet(s.words)
    THEN LET w  == DictPop(s.words, ev.word)
             s1 == save_words([s EXCEPT !.words = w], w, t)
         IN  [save_learned(s1, s.learned, t) EXCEPT !.done = TRUE]
    ELSE s

\* lines 138-144
DeleteHandler(s, ev, t) ==
    IF ev.kind = "delete" /\ ev.word \in KeySet(s.words)
    THEN LET w  == DictPop(s.words, ev.word)
             l  == Without(s.learned, ev.word)
             s1 == save_words([s EXCEPT !.words = w, !.learned = l], w, t)
         IN  [save_learned(s1, l, t) EXCEPT !.done = TRUE]
    ELSE s

\* the queue built from the end of the repository
Queue_reversed(w, l) ==
    LET q == SelectSeq(Keys(w), LAMBDA x : x \notin Range(l))
    IN  [i \in 1..Len(q) |-> q[Len(q) + 1 - i]]

\* a queue without the filter of line 155
Queue_unfiltered(w, l) == Keys(w)

\* line 155
Queue(w, l) == SelectSeq(Keys(w), LAMBDA x : x \notin Range(l))

\* lines 154-171
\* queue[-1] for queue[0] at line 167: the word marked is the last of the
\* queue, not the card shown
LearningMode_marksLast(s, ev, t) ==
    LET queue == Queue(s.words, s.learned)
    IN  IF queue # <<>> /\ ev.kind = "known"
        THEN LET l == Append(s.learned, queue[Len(queue)])
             IN  [save_learned([s EXCEPT !.learned = l], l, t) EXCEPT !.done = TRUE]
        ELSE s

\* both buttons of the card handled as the first one: "unknown" marks the
\* card too
LearningMode_unknownMarks(s, ev, t) ==
    LET queue == Queue(s.words, s.learned)
    IN  IF queue # <<>> /\ ev.kind \in {"known", "unknown"}
        THEN LET l == Append(s.learned, queue[1])
             IN  [save_learned([s EXCEPT !.learned = l], l, t) EXCEPT !.done = TRUE]
        ELSE s

\* lines 164-169 without line 168: the word is marked in memory only
LearningMode_nosave(s, ev, t) ==
    LET queue == Queue(s.words, s.learned)
    IN  IF queue # <<>> /\ ev.kind = "known"
        THEN [s EXCEPT !.learned = Append(s.learned, queue[1]), !.done = TRUE]
        ELSE s

LearningMode(s, ev, t) ==
    LET queue == Queue(s.words, s.learned)
    IN  IF queue # <<>> /\ ev.kind = "known"
        THEN LET l == Append(s.learned, queue[1])
             IN  [save_learned([s EXCEPT !.learned = l], l, t) EXCEPT !.done = TRUE]
        ELSE s

\* learned.pop() for learned.remove(target) at line 185: the word taken
\* out is the last one marked
ReviewMode_popLast(s, ev, t) ==
    IF /\ s.learned # <<>> /\ ev.kind = "relearn"
       /\ ev.word \in Range(s.learned) /\ ev.word \in KeySet(s.words)
    THEN LET l == SubSeq(s.learned, 1, Len(s.learned) - 1)
         IN  [save_learned([s EXCEPT !.learned = l], l, t) EXCEPT !.done = TRUE]
    ELSE s

\* lines 173-189; words[target] raises KeyError before the buttons
ReviewMode(s, ev, t) ==
    IF /\ s.learned # <<>> /\ ev.kind = "relearn"
       /\ ev.word \in Range(s.learned) /\ ev.word \in KeySet(s.words)
    THEN LET l == RemoveFirst(s.learned, ev.word)
         IN  [save_learned([s EXCEPT !.learned = l], l, t) EXCEPT !.done = TRUE]
    ELSE s

\* lines 151-189
MainScreen(s, ev, m, t) ==
    IF m = "learning" THEN LearningMode(s, ev, t) ELSE ReviewMode(s, ev, t)

\* lines 111-189, which an execution halted in the session initialisation
\* does not reach
Handlers(s, ev, m, t) ==
    IF s.halted THEN s
    ELSE MainScreen(DeleteHandler(AddHandler(s, ev, t), ev, t), ev, m, t)

\* one execution of app.py, top to bottom, from the state s0 in mode m
Script(s0, ev, m, api, results, t) ==
    Handlers(SessionInit(s0, api, results, t), ev, m, t)

\* ------------------------------ actions --------------------------------
FetchInputs ==
    {[api |-> "error", results |-> <<>>]}
        \cup {[api |-> "ok", results |-> r] : r \in SeqsUpTo(Pages, MaxRows)}

\* the bookkeeping of the saves an execution made
Count(log, stem) == Len(SelectSeq(log, LAMBDA e : e.stem = stem))

Snapped(log, stem) == \E i \in 1..Len(log) : log[i].stem = stem /\ log[i].snap

Min(a, b) == IF a < b THEN a ELSE b

Saved(log, t) ==
    [st \in Stems |->
        [n     |-> Min(saved[st].n + Count(log, st), keep + 1),
         taken |-> IF Snapped(log, st) THEN saved[st].taken \cup {t}
                   ELSE saved[st].taken]]

\* an execution of the script from s0 for the event ev with the radio on
\* m, where Notion would answer in
Execute(s0, ev, m, in) ==
    \E s \in {Script(s0, ev, m, in.api, in.results, now)} :
        /\ wordsFile' = s.wf
        /\ learnedFile' = s.lf
        /\ backups' = s.dir
        /\ words' = s.words
        /\ learned' = s.learned
        /\ session' = "open"
        /\ mode' = m
        /\ rendered' = ~s.halted
        /\ fetched' = s.fetched
        /\ syncStatus' = s.syncStatus
        /\ syncCalls' = s.syncCalls
        /\ merges' = s.merges
        /\ last' = [kind |-> ev.kind, word |-> ev.word, done |-> s.done]
        /\ kept' = IF ev.kind = "add" /\ s.done THEN kept \cup {ev.word}
                   ELSE IF ev.kind = "delete" /\ s.done THEN kept \ {ev.word}
                   ELSE kept
        /\ saved' = Saved(s.log, now)
        /\ nRuns' = nRuns + 1
        /\ UNCHANGED now

\* the browser opens or reloads the page: the first execution of a new
\* session, whose radio shows its first option
Connect(in) == Execute(Fresh, Event("connect", "", "", ""), "learning", in)

\* an execution of a session that has run before; it reaches the fetch
\* only if line 105 lets it
UserStep(ev, m) ==
    /\ session = "open"
    /\ \E in \in IF WordsInSessionState(Current) THEN {[api |-> "ok", results |-> <<>>]}
                 ELSE FetchInputs :
           Execute(Current, ev, m, in)

\* the user asks for a rerun; no widget changed
Rerun == UserStep(Event("rerun", "", "", ""), mode)

\* the sidebar's add button, with the three text inputs
Add(w, m, n) == rendered /\ UserStep(Event("add", w, m, n), mode)

\* the search box
Search(q) == rendered /\ UserStep(Event("search", q, "", ""), mode)

\* line 112 and the delete selectbox: None when there is no option
DeleteOptions == IF words = <<>> THEN {NoSelection} ELSE KeySet(words)

\* the sidebar's delete button
Delete(w) ==
    /\ rendered
    /\ w \in DeleteOptions
    /\ UserStep(Event("delete", w, "", ""), mode)

Other(m) == IF m = "learning" THEN "review" ELSE "learning"

\* the mode radio
SwitchMode == rendered /\ UserStep(Event("mode", "", "", ""), Other(mode))

CardShown == rendered /\ mode = "learning" /\ Queue(words, learned) # <<>>

\* learning mode: the "known" button of the current card
Known == CardShown /\ UserStep(Event("known", Queue(words, learned)[1], "", ""), mode)

\* learning mode: the "unknown" button
Unknown == CardShown /\ UserStep(Event("unknown", Queue(words, learned)[1], "", ""), mode)

ReviewShown(w) ==
    /\ rendered /\ mode = "review"
    /\ w \in Range(learned) /\ w \in KeySet(words)

\* review mode: the "relearn" button for the word selected
Relearn(w) == ReviewShown(w) /\ UserStep(Event("relearn", w, "", ""), mode)

\* review mode: the "unknown" button
ReviewUnknown(w) == ReviewShown(w) /\ UserStep(Event("review_unknown", w, "", ""), mode)

\* a second passes
Tick ==
    /\ now' = now + 1
    /\ UNCHANGED <<wordsFile, learnedFile, backups, session, words, learned, mode,
                   rendered, fetched, syncStatus, syncCalls, merges, nRuns, last,
                   kept, saved>>

Start(wf, lf) ==
    /\ wordsFile = wf
    /\ learnedFile = lf
    /\ backups = <<>>
    /\ now = 0
    /\ session = "closed"
    /\ words = <<>>
    /\ learned = <<>>
    /\ mode = "learning"
    /\ rendered = FALSE
    /\ fetched = NoFetch
    /\ syncStatus = "none"
    /\ syncCalls = 0
    /\ merges = 0
    /\ nRuns = 0
    /\ last = [kind |-> "none", word |-> "", done |-> FALSE]
    /\ kept = {}
    /\ saved = [st \in Stems |-> [n |-> 0, taken |-> {}]]

\* the first start of the program: no store file exists
Init == Start(<<>>, <<>>)

\* the executions a user can cause while fewer than n have run
Runs(n) ==
    \/ nRuns < n /\ \E in \in FetchInputs : Connect(in)
    \/ nRuns < n /\ Rerun
    \/ nRuns < n /\ \E w \in WordInputs, m \in MeanInputs, o \in MemoInputs : Add(w, m, o)
    \/ nRuns < n /\ \E q \in Queries : Search(q)
    \/ nRuns < n /\ \E w \in DeleteOptions : Delete(w)
    \/ nRuns < n /\ SwitchMode
    \/ nRuns < n /\ Known
    \/ nRuns < n /\ Unknown
    \/ nRuns < n /\ \E w \in Range(learned) : Relearn(w)
    \/ nRuns < n /\ \E w \in Range(learned) : ReviewUnknown(w)

\* the sessions of a user from the first start on, all within one second
Next == Runs(MaxRuns)

Spec == Init /\ [][Next]_vars

\* stores that earlier sessions left: three words, learned in any order
Library ==
    <<[word |-> "cat", meaning |-> "m", memo |-> ""],
      [word |-> "dog", meaning |-> "m", memo |-> "n"],
      [word |-> "owl", meaning |-> "m", memo |-> ""]>>

LearnedLists == {l \in SeqsUpTo(KeySet(Library), Len(Library)) : NoDup(l)}

StudyInit ==
    \/ Init
    \/ \E l \in LearnedLists : Start(<<Library>>, <<l>>)

StudyNext == Runs(StudyRuns)

StudySpec == StudyInit /\ [][StudyNext]_vars

\* the saves of one word over the seconds, with Notion answering no rows
SnapNext ==
    \/ now < SnapTime /\ Tick
    \/ nRuns < SnapRuns /\ Connect([api |-> "ok", results |-> <<>>])
    \/ nRuns < SnapRuns /\ Add("cat", "m", "")
    \/ nRuns < SnapRuns /\ Known

SnapSpec == Init /\ [][SnapNext]_vars


\* the add form alone: what the three text inputs can hold, with Notion
\* answering no rows
FormWords == {"", " ", "cat"}

FormMeans == {"", " ", "m"}

FormMemos == {"", "n"}

FormNext ==
    \/ nRuns < FormRuns /\ Connect([api |-> "ok", results |-> <<>>])
    \/ nRuns < FormRuns /\ \E w \in FormWords, m \in FormMeans, o \in FormMemos : Add(w, m, o)

FormSpec == Init /\ [][FormNext]_vars

\* the merge alone: session starts over any local repository below and any
\* remote rows, where rows share words and differ in definition and memo
MergeTitles == {<<"cat">>, <<"dog">>}

MergeMeans == {<<"r">>, <<"s">>}

MergeMemos == {<<>>, <<"n">>}

MergePages == [title : MergeTitles, mean : MergeMeans, memo : MergeMemos]

LocalDicts ==
    {<<>>,
     Library,
     << [word |-> "owl", meaning |-> "m", memo |-> ""],
        [word |-> "cat", meaning |-> "m", memo |-> "o"] >>}

MergeInit == \E d \in LocalDicts : Start(<<d>>, <<>>)

MergeNext ==
    nRuns < MergeRuns /\ \E rs \in SeqsUpTo(MergePages, MergeRows) :
                             Connect([api |-> "ok", results |-> rs])

MergeSpec == MergeInit /\ [][MergeNext]_vars

\* ------------------------------ properties -----------------------------
RowWords(rows) == {rows[i].word : i \in 1..Len(rows)}

\* a stands before b in s
Before(s, a, b) == \E i, j \in 1..Len(s) : i < j /\ s[i] = a /\ s[j] = b

\* equal as Python dicts: the same entries, in any order
SameDict(d, e) == Range(d) = Range(e)

\* the timestamps of the snapshots of a store in the backups directory
Snapshots(stem) == {f.ts : f \in {g \in DOMAIN backups : g.stem = stem}}

\* the k largest elements of T
Latest(T, k) == {t \in T : Cardinality({u \in T : u > t}) < k}

SyncedNow == last.kind = "connect" /\ fetched.status = "ok"

FailedNow == last.kind = "connect" /\ fetched.status \in {"api_error", "bad_row"}

\* C1: in every state of a session, after any add, delete, mark-known or
\* relearn and right after the session start, every word of the LearnedSet
\* is a key of the WordRepository, so that the lookup words[target] of the
\* review mode finds an entry.
C1_LearnedInRepository ==
    session = "open" => Range(learned) \subseteq KeySet(words)

\* C2: sync never deletes: a word of the loaded repository that no remote
\* row names is, after the session-start sync, still in the session
\* repository with the meaning and memo it was loaded with.
C2_SyncNeverDeletes ==
    [][(last'.kind = "connect" /\ fetched'.status = "ok") =>
          \A w \in KeySet(LoadValue(wordsFile)) \ RowWords(fetched'.rows) :
              /\ w \in KeySet(words')
              /\ DictGet(words', w) = DictGet(LoadValue(wordsFile), w)]_vars

\* C2 witness: a sync merged at least one row and the repository holds a
\* word that no row names
C2_Witness ==
    /\ SyncedNow
    /\ fetched.rows # <<>>
    /\ KeySet(words) \ RowWords(fetched.rows) # {}

\* C3: after each completed mutation of the WordRepository (the sync merge
\* at session start, an accepted add, a delete of a present word) the
\* words store holds the session repository.
C3_WordsPersistedAfterMutation ==
    (SyncedNow \/ (last.kind \in {"add", "delete"} /\ last.done)) =>
        wordsFile # <<>> /\ SameDict(wordsFile[1], words)

\* C4: a word added by add and not deleted since is in the repository of
\* every session, whatever Notion returned and whenever sessions ended.
C4_LocalWordsDurable ==
    session = "open" => kept \subseteq KeySet(words)

\* C5: cascading delete: after the delete of a word of the repository the
\* word is in neither the repository, the LearnedSet nor the learned store,
\* and the other learned words are all there in their former order.
C5_CascadingDelete ==
    [][(last'.kind = "delete" /\ last'.done) =>
          /\ last'.word \notin KeySet(words')
          /\ last'.word \notin Range(learned')
          /\ learnedFile' = <<learned'>>
          /\ Range(learned') = Range(learned) \ {last'.word}
          /\ Len(learned') = Cardinality(Range(learned'))
          /\ \A a, b \in Range(learned') :
                 Before(learned', a, b) <=> Before(learned, a, b)]_vars

\* C5 witness: the delete removed a learned word from between two others
\* (the snapshot taken by its save holds the list as it was)
C5_Witness ==
    /\ last.kind = "delete" /\ last.done
    /\ Len(learned) = 2
    /\ [stem |-> LEARNED_STEM, ts |-> now] \in DOMAIN backups
    /\ backups[[stem |-> LEARNED_STEM, ts |-> now]]
           = <<learned[1], last.word, learned[2]>>

\* C6: no duplicate learned entries: from a learned store without
\* duplicates, no sequence of mark-known, relearn, add, delete and session
\* restarts puts a word twice into the LearnedSet or the learned store (the
\* known button only ever marks a word that is not yet learned).
C6_NoDuplicateLearned ==
    /\ NoDup(learned)
    /\ learnedFile # <<>> => NoDup(learnedFile[1])

\* C6 witness: the known button marked a word while others were learned
C6_Witness ==
    /\ last.kind = "known" /\ last.done
    /\ Len(learned) = 3
    /\ learned[3] = last.word

\* C7: after N > 5 saves of a store exactly 5 snapshots of it remain, those
\* of the 5 most recent saves, and never more than 5.
C7_ExactlyFiveAfterSixSaves ==
    \A st \in Stems :
        saved[st].n > keep => Cardinality(Snapshots(st)) = keep

\* C7 as amended: a store never has more than 5 snapshots after a save;
\* they are those of the latest seconds in which a save of the store took
\* one, and they are exactly 5 once there were 5 such seconds.
C7_RetentionBound ==
    \A st \in Stems :
        /\ Cardinality(Snapshots(st)) <= keep
        /\ Snapshots(st) = Latest(saved[st].taken, keep)
        /\ Cardinality(saved[st].taken) >= keep
               => Cardinality(Snapshots(st)) = keep

\* C7 witness: snapshots were taken in more than 5 seconds, 5 are left
C7_Witness ==
    /\ Cardinality(saved[WORDS_STEM].taken) > keep
    /\ Cardinality(Snapshots(WORDS_STEM)) = keep

\* C8: a failed fetch (an API error, a row without a field) leaves the
\* local state: nothing is merged, not even rows read before the failure;
\* the session repository is the loaded one, the words store and the
\* snapshots are as load_words left them.
C8_FailedFetchLeavesLocalState ==
    [][(last'.kind = "connect" /\ fetched'.status \in {"api_error", "bad_row"}) =>
          /\ words' = LoadValue(wordsFile)
          /\ wordsFile' = LoadFile(wordsFile)
          /\ backups' = backups
          /\ merges' = 0]_vars

\* C8 witness: the fetch failed on a bad row after it had read a row that
\* the loaded repository does not hold
C8_Witness ==
    /\ FailedNow
    /\ fetched.status = "bad_row"
    /\ fetched.rows # <<>>
    /\ words # <<>>
    /\ fetched.rows[1] \notin Range(words)

\* C9: in a session whose fetch failed no later execution reaches the
\* handlers and the modes with the unsynced repository.
C9_FailedFetchHaltsSession ==
    (session = "open" /\ syncStatus \in {"api_error", "bad_row"}) => ~rendered

Strip(x) == IF x = " " THEN "" ELSE x

\* C11: an add whose word or meaning is empty or whitespace-only is
\* rejected: whenever the add handler has inserted and saved, the word and
\* the meaning it stored are not blank.
C11_BlankAddRejected ==
    (last.kind = "add" /\ last.done) =>
        /\ Strip(last.word) # ""
        /\ Strip(DictGet(words, last.word).meaning) # ""

\* the content words.json had when this second's words snapshot was taken
WordsSnapshotNow == backups[[stem |-> WORDS_STEM, ts |-> now]]

HasWordsSnapshotNow == [stem |-> WORDS_STEM, ts |-> now] \in DOMAIN backups

\* C12: after the sync merge every remote row's word is a key of the
\* repository, and its entry has exactly the meaning and the memo of the
\* last fetched row with that word.
C12_RemoteWins ==
    SyncedNow =>
        \A i \in 1..Len(fetched.rows) :
            LET r == fetched.rows[i]
            IN  /\ r.word \in KeySet(words)
                /\ (\A j \in (i + 1)..Len(fetched.rows) : fetched.rows[j].word # r.word)
                       => DictGet(words, r.word) = [meaning |-> r.meaning, memo |-> r.memo]

\* two rows with the same word and different content, the last without a
\* memo, over a local entry with another meaning and a memo
C12_Witness ==
    /\ SyncedNow
    /\ Len(fetched.rows) = 2
    /\ HasWordsSnapshotNow
    /\ LET a == fetched.rows[1]
           b == fetched.rows[2]
       IN  /\ a.word = b.word
           /\ a.meaning # b.meaning
           /\ a.memo # ""
           /\ b.memo = ""
           /\ b.word \in KeySet(WordsSnapshotNow)
           /\ DictGet(WordsSnapshotNow, b.word).meaning \notin {a.meaning, b.meaning}
           /\ DictGet(WordsSnapshotNow, b.word).memo # ""
           /\ DictGet(words, b.word) = [meaning |-> b.meaning, memo |-> ""]

\* line 109 on a repository and the rows of a fetch
SyncMerge(local, rows) == DictUpdate(local, RemoteDict(rows))

\* C13: the repository after a session start is the merge of the loaded
\* repository with the rows, and merging the same rows into it once more
\* gives the same keys, in the same order, with the same entries.
C13_IdempotentResync ==
    (SyncedNow /\ HasWordsSnapshotNow) =>
        LET once == SyncMerge(WordsSnapshotNow, fetched.rows)
        IN  /\ words = once
            /\ SyncMerge(once, fetched.rows) = once

\* rows that change a local entry and add a new word, next to a local word
\* the remote does not have
C13_Witness ==
    /\ SyncedNow
    /\ HasWordsSnapshotNow
    /\ KeySet(WordsSnapshotNow) \ RowWords(fetched.rows) # {}
    /\ RowWords(fetched.rows) \ KeySet(WordsSnapshotNow) # {}
    /\ \E w \in RowWords(fetched.rows) \cap KeySet(WordsSnapshotNow) :
           DictGet(WordsSnapshotNow, w) # DictGet(words, w)

\* C14: an execution that marks a word known, relearns a word or deletes a
\* present word leaves learned_words.json with exactly the in-memory
\* learned list: the list before with the word appended at its end (known)
\* or with the word taken out and the others in their order (relearn,
\* delete).
C14_LearnedPersisted ==
    [][(last'.kind \in {"known", "relearn", "delete"} /\ last'.done) =>
          /\ learnedFile' = <<learned'>>
          /\ last'.kind = "known" => learned' = Append(learned, last'.word)
          /\ last'.kind # "known" => learned' = Without(learned, last'.word)]_vars

\* the middle one of three learned words was relearned
C14_Witness ==
    /\ last.kind = "relearn" /\ last.done
    /\ Len(learned) = 2
    /\ learnedFile = <<learned>>
    /\ [stem |-> LEARNED_STEM, ts |-> now] \in DOMAIN backups
    /\ backups[[stem |-> LEARNED_STEM, ts |-> now]]
           = <<learned[1], last.word, learned[2]>>

\* C15: while a session is open the learning queue holds exactly the
\* repository's keys that are not learned, each once and in the order of the
\* repository; it shares no word with the learned list and together they
\* cover the repository; the card the known and unknown buttons act on is
\* the first of the queue, and the word a review button acts on is one of
\* the learned list.
C15_QueueDerivation ==
    /\ [](session = "open" =>
            LET q == Queue(words, learned)
            IN  /\ Range(q) = KeySet(words) \ Range(learned)
                /\ NoDup(q)
                /\ \A a, b \in Range(q) : Before(q, a, b) <=> Before(Keys(words), a, b)
                /\ Range(q) \cap Range(learned) = {}
                /\ KeySet(words) \subseteq Range(q) \cup Range(learned))
    /\ [][/\ last'.kind \in {"known", "unknown"} =>
                /\ Queue(words, learned) # <<>>
                /\ last'.word = Head(Queue(words, learned))
          /\ (last'.kind = "known" /\ last'.done) =>
                learned' = Append(learned, Head(Queue(words, learned)))
          /\ last'.kind \in {"relearn", "review_unknown"} =>
                last'.word \in Range(learned)]_vars

\* a learned word stands between the two words of the queue
C15_Witness ==
    /\ session = "open" /\ rendered /\ mode = "learning"
    /\ Len(learned) = 1
    /\ Len(Queue(words, learned)) = 2
    /\ Keys(words) = <<Queue(words, learned)[1], learned[1], Queue(words, learned)[2]>>
    /\ last.kind = "unknown"

\* C16: an execution that marks the card known leaves the repository as it
\* is and takes exactly the card, the first word, out of the queue, so the
\* queue gets one shorter with the rest in order; and while the queue is
\* empty the known button cannot be pressed.
C16_KnownShrinksQueue ==
    /\ [][(last'.kind = "known" /\ last'.done) =>
             /\ words' = words
             /\ last'.word = Head(Queue(words, learned))
             /\ Queue(words', learned') = Tail(Queue(words, learned))
             /\ Len(Queue(words', learned')) = Len(Queue(words, learned)) - 1]_vars
    /\ []((session = "open" /\ Queue(words, learned) = <<>>) => ~ENABLED Known)

\* a queue of three words emptied by three marks in a row
C16_Witness ==
    /\ last.kind = "known" /\ last.done
    /\ Len(words) = 3
    /\ learned = Keys(words)
    /\ saved[LEARNED_STEM].n = 3
    /\ nRuns = 4
    /\ Queue(words, learned) = <<>>
    /\ ~ENABLED Known

\* C17: an execution that relearns a word of the learned list leaves the
\* repository as it is, takes exactly that word out of the learned list with
\* the others in their order, and the word is in the learning queue, before
\* and after the same queue words as in the repository.
C17_RelearnRequeues ==
    [][(last'.kind = "relearn" /\ last'.done) =>
          LET w == last'.word
              q == Queue(words', learned')
          IN  /\ w \in Range(learned)
              /\ words' = words
              /\ w \notin Range(learned')
              /\ Range(learned') = Range(learned) \ {w}
              /\ Len(learned') = Len(learned) - 1
              /\ \A a, b \in Range(learned') :
                     Before(learned', a, b) <=> Before(learned, a, b)
              /\ w \in Range(q)
              /\ \A a \in Range(q) \ {w} :
                     /\ Before(q, a, w) <=> Before(Keys(words), a, w)
                     /\ Before(q, w, a) <=> Before(Keys(words), w, a)]_vars

\* the relearned word goes to the head of the queue, before a word that
\* was waiting there
C17_Witness ==
    /\ last.kind = "relearn" /\ last.done
    /\ Len(learned) = 1
    /\ Len(Queue(words, learned)) = 2
    /\ Queue(words, learned)[1] = last.word
    /\ [stem |-> LEARNED_STEM, ts |-> now] \in DOMAIN backups
    /\ backups[[stem |-> LEARNED_STEM, ts |-> now]] = <<last.word, learned[1]>>

\* C18: an execution for the unknown button of either mode, for a mode
\* switch, for a search, or for a delete whose target is not in the
\* repository leaves the repository, the learned list, both store files and
\* the backups directory as they were.
C18_NonMutatingActions ==
    [][(\/ last'.kind \in {"unknown", "review_unknown", "mode", "search"}
        \/ last'.kind = "delete" /\ ~last'.done) =>
          UNCHANGED <<words, learned, wordsFile, learnedFile, backups>>]_vars

\* the delete button pressed with nothing to select, after saves have left
\* a snapshot
C18_Witness ==
    /\ last.kind = "delete" /\ ~last.done
    /\ last.word \notin KeySet(words)
    /\ wordsFile = <<words>>
    /\ backups # <<>>

\* the execution of this step has saved words.json / learned_words.json
WordsSaveStep ==
    /\ nRuns' # nRuns
    /\ \/ last'.kind \in {"add", "delete"} /\ last'.done
       \/ last'.kind = "connect" /\ fetched'.status = "ok"

LearnedSaveStep ==
    /\ nRuns' # nRuns
    /\ last'.kind \in {"known", "relearn", "delete"} /\ last'.done

\* C19: after an execution that saves a store, the snapshot named with the
\* store and the second of the save holds the content the store file had
\* before the save (the empty document a load has just created, if the file
\* was absent), and the store file holds the new value; this is so for every
\* save, also for a later save within the same second.
C19_SnapshotBeforeOverwrite ==
    [][/\ WordsSaveStep =>
            /\ [stem |-> WORDS_STEM, ts |-> now] \in DOMAIN backups'
            /\ backups'[[stem |-> WORDS_STEM, ts |-> now]] = LoadValue(wordsFile)
            /\ wordsFile' = IF last'.kind = "connect"
                            THEN <<RemoteDict(fetched'.rows)>>
                            ELSE <<words'>>
       /\ LearnedSaveStep =>
            /\ [stem |-> LEARNED_STEM, ts |-> now] \in DOMAIN backups'
            /\ backups'[[stem |-> LEARNED_STEM, ts |-> now]] = LoadValue(learnedFile)
            /\ learnedFile' = <<learned'>>]_vars

\* three saves of words.json within one second: the one snapshot holds the
\* word the second save wrote, and the file holds what the third wrote
C19_Witness ==
    /\ last.kind = "connect" /\ fetched.status = "ok"
    /\ saved[WORDS_STEM].n = 3
    /\ saved[WORDS_STEM].taken = {now}
    /\ Snapshots(WORDS_STEM) = {now}
    /\ KeySet(backups[[stem |-> WORDS_STEM, ts |-> now]]) = {"cat"}
    /\ wordsFile = <<(<<>>)>>

\* the snapshots of one store, names and contents
SnapshotsOf(dir, stem) == Restrict(dir, {f \in DOMAIN dir : f.stem = stem})

\* C20: an execution that saves words.json and not learned_words.json
\* leaves every learned_words snapshot as it was, none created, overwritten
\* or deleted, and an execution that saves learned_words.json and not
\* words.json leaves every words snapshot as it was.
C20_RetentionPerStore ==
    [][/\ (WordsSaveStep /\ ~LearnedSaveStep) =>
            SnapshotsOf(backups', LEARNED_STEM) = SnapshotsOf(backups, LEARNED_STEM)
       /\ (LearnedSaveStep /\ ~WordsSaveStep) =>
            SnapshotsOf(backups', WORDS_STEM) = SnapshotsOf(backups, WORDS_STEM)]_vars

\* a save of words.json has trimmed the words snapshots to five, and a
\* learned_words snapshot no newer than any of them is still there
C20_Witness ==
    /\ last.kind = "add" /\ last.done
    /\ Cardinality(saved[WORDS_STEM].taken) = keep + 1
    /\ Cardinality(Snapshots(WORDS_STEM)) = keep
    /\ Snapshots(LEARNED_STEM) # {}
    /\ \A t \in Snapshots(LEARNED_STEM), u \in Snapshots(WORDS_STEM) : t <= u

=============================================================================
